---- MODULE Spec2Model ----
(***************************************************************************)
(* Certificate lifecycle service (src/app.py), its domain table            *)
(* (src/models.py) and the certbot simulator (src/certbot_mock.py).        *)
(*                                                                         *)
(* Time is counted in days.  datetime.now() reads the variable `now`; the  *)
(* clock may advance between two reads made by the same call.              *)
(*                                                                         *)
(* Scheduling.  issue_certificate, renew_certificate, revoke_certificate   *)
(* and get_certificate_status are `async def` handlers and the three       *)
(* perform_* background tasks are `async def` coroutines without a single  *)
(* await: they run on the event loop and block it (time.sleep) from their  *)
(* first statement to their last.  add_domain and transition_domain are    *)
(* plain `def` handlers, which FastAPI runs on worker threads: they (and   *)
(* the passing of time) are what can fall between the steps of a running   *)
(* background task.                                                        *)
(*                                                                         *)
(* One process lifetime is modelled, started on an empty certfsm.db: the   *)
(* simulator's records (CertbotMock.certs) live in memory only.            *)
(*                                                                         *)
(* The session.  A handler and the background task it schedules share the  *)
(* request's Session (get_session).  FastAPI closes it (db.close(), which  *)
(* empties its identity map) before the background tasks run in releases   *)
(* 0.106 to 0.117 and after them in the others; the release is not pinned, *)
(* so `session_open` is either.  In an open session the task's select     *)
(* returns the object the handler loaded, with the attributes read then.   *)
(* A commit expires the attributes of the object (expire_on_commit), and   *)
(* a flush writes the columns that were set since, but for those set to    *)
(* the value that was loaded: the ORM takes these as unchanged.            *)
(*                                                                         *)
(* `last` is the response of the last request (or the log line of the last *)
(* task step); `chain` is history: per domain, the expiry set by the last  *)
(* successful issue and the number of successful renews since.             *)
(*                                                                         *)
(* The columns id, enabled, created_at, updated_at and last_checked of     *)
(* CertDomain are written but never read by any handler; they are left out *)
(* of the row.                                                             *)
(***************************************************************************)
EXTENDS Integers, Sequences, FiniteSets, Bags, TLC

VARIABLES db, certs, pending, running, scheduled, now, success_rate, session_open,
          last, chain

vars ==
    <<db, certs, pending, running, scheduled, now, success_rate, session_open,
      last, chain>>

---------------------------------------------------------------------------
(* Bounds of the model *)

\* number of background tasks scheduled in one behaviour
MaxTasks == 2

Domains == {"example.com"}

\* the instants the clock is read at, in days: a certificate issued on day 0
\* is valid then and has expired on day 151; renewed once, it expires on
\* day 180, within 30 days of day 151
Clock == {0, 151}

\* the instants a later read of the clock can return
LaterClock(t) == {t} \cup {u \in Clock : u > t}

\* CertbotMock(success_rate=0.9, delay=1.0): the service's simulator, its
\* success_rate in percent
SUCCESS_RATE == 90

\* values of random.random(), in percent of [0.0, 1.0)
RandomValues == {0, 89, 90, 99}

---------------------------------------------------------------------------
(* Values *)

\* a NULL DateTime column, an absent dict key, a None expiry
NoTime == -1

\* a NULL last_error, a None error message
NoError == "None"

NoDomain == "-"
NoEvent == "-"

\* timedelta(days=90): the lifetime of an issued or renewed certificate
DAYS_VALID == 90

\* timedelta(days=30): the window in which a certificate is expiring soon
DAYS_EXPIRING_SOON == 30

---------------------------------------------------------------------------
(* The state machine: FSM_STATES, FSM_TRANSITIONS and transitions.Machine *)

FSM_STATES ==
    << "unissued", "requesting", "validating", "issued", "renewing",
       "renewed", "failed", "expired", "revoked", "invalid" >>

States == {FSM_STATES[i] : i \in DOMAIN FSM_STATES}

\* the table with a second manual_revoke row, of source "issued"
FSM_TRANSITIONS_second_row ==
    << [trigger |-> "request_cert",     source |-> "unissued",   dest |-> "requesting"],
       [trigger |-> "validate_ok",      source |-> "validating", dest |-> "issued"],
       [trigger |-> "request_renewal",  source |-> "issued",     dest |-> "renewing"],
       [trigger |-> "renew_success",    source |-> "renewing",   dest |-> "renewed"],
       [trigger |-> "expired_detected", source |-> "issued",     dest |-> "expired"],
       [trigger |-> "manual_revoke",    source |-> "*",          dest |-> "revoked"],
       [trigger |-> "invalidate",       source |-> "*",          dest |-> "invalid"],
       [trigger |-> "continue_cycle",   source |-> "renewed",    dest |-> "issued"],
       [trigger |-> "manual_revoke",    source |-> "issued",     dest |-> "failed"] >>

\* the table with validate_ok wired to "requesting"
FSM_TRANSITIONS_validate_from_requesting ==
    << [trigger |-> "request_cert",     source |-> "unissued",   dest |-> "requesting"],
       [trigger |-> "validate_ok",      source |-> "requesting", dest |-> "issued"],
       [trigger |-> "request_renewal",  source |-> "issued",     dest |-> "renewing"],
       [trigger |-> "renew_success",    source |-> "renewing",   dest |-> "renewed"],
       [trigger |-> "expired_detected", source |-> "issued",     dest |-> "expired"],
       [trigger |-> "manual_revoke",    source |-> "*",          dest |-> "revoked"],
       [trigger |-> "invalidate",       source |-> "*",          dest |-> "invalid"],
       [trigger |-> "continue_cycle",   source |-> "renewed",    dest |-> "issued"] >>

FSM_TRANSITIONS ==
    << [trigger |-> "request_cert",     source |-> "unissued",   dest |-> "requesting"],
       [trigger |-> "validate_ok",      source |-> "validating", dest |-> "issued"],
       [trigger |-> "request_renewal",  source |-> "issued",     dest |-> "renewing"],
       [trigger |-> "renew_success",    source |-> "renewing",   dest |-> "renewed"],
       [trigger |-> "expired_detected", source |-> "issued",     dest |-> "expired"],
       [trigger |-> "manual_revoke",    source |-> "*",          dest |-> "revoked"],
       [trigger |-> "invalidate",       source |-> "*",          dest |-> "invalid"],
       [trigger |-> "continue_cycle",   source |-> "renewed",    dest |-> "issued"] >>

Triggers == {FSM_TRANSITIONS[i].trigger : i \in DOMAIN FSM_TRANSITIONS}

\* transitions.Machine(auto_transitions=True, the default) adds a trigger
\* to_<state> for every state, legal from every state
AutoTriggerNames ==
    << "to_unissued", "to_requesting", "to_validating", "to_issued", "to_renewing",
       "to_renewed", "to_failed", "to_expired", "to_revoked", "to_invalid" >>

AutoTriggers == {AutoTriggerNames[i] : i \in DOMAIN AutoTriggerNames}

AutoDest(e) == FSM_STATES[CHOOSE i \in DOMAIN AutoTriggerNames : AutoTriggerNames[i] = e]

\* attributes of the bound model that can be called without arguments and
\* leave its state alone: Machine's is_<state> checks, object's methods
InertCallables == {"is_issued", "__str__"}

\* the event names requests are made with: the declared triggers, four of
\* the automatic ones, an inert callable and a name that is no attribute
Events ==
    Triggers \cup {"to_issued", "to_validating", "to_requesting", "to_failed",
                   "is_issued", "bogus"}

\* the rows Machine registers for trigger e in state s, in table order: a
\* row with source "*" is registered for every state
MatchingRows(s, e) ==
    SelectSeq(FSM_TRANSITIONS,
              LAMBDA r : r.trigger = e /\ (r.source = s \/ r.source = "*"))

\* getattr(model, event)() on a model bound to a Machine in state s:
\* the state it leaves the model in, or the exception it raises
getattr_call(s, e) ==
    IF e \in Triggers
    THEN IF MatchingRows(s, e) # << >>
         THEN [raised |-> FALSE, state |-> Head(MatchingRows(s, e)).dest]
         ELSE [raised |-> TRUE, state |-> s]
    ELSE IF e \in AutoTriggers
    THEN [raised |-> FALSE, state |-> AutoDest(e)]
    ELSE IF e \in InertCallables
    THEN [raised |-> FALSE, state |-> s]
    ELSE [raised |-> TRUE, state |-> s]

---------------------------------------------------------------------------
(* The certdomain table *)

\* CertDomain(domain=domain, state="unissued"): the nullable columns are NULL
CertDomain(d) ==
    [domain |-> d, state |-> "unissued", expires_at |-> NoTime, last_error |-> NoError]

\* select(CertDomain).where(CertDomain.domain == d)
RowsOf(d) == {i \in DOMAIN db : db[i].domain = d}

\* .scalar_one_or_none() is not None
HasRow(d) == RowsOf(d) # {}

RowId(d) == CHOOSE i \in RowsOf(d) : TRUE

Entry(d) == db[RowId(d)]

\* no loaded attributes: an object that was not loaded, or was expired
NoRow == [domain |-> NoDomain, state |-> "-", expires_at |-> NoTime, last_error |-> NoError]

\* the response of the last request, or the log line of the last task step
Obs(kind, d, e, code, out) ==
    [kind |-> kind, domain |-> d, event |-> e, code |-> code, out |-> out]

NoOut == [none |-> TRUE]

---------------------------------------------------------------------------
(* Background tasks *)

\* the coroutine that holds the event loop, from its first statement to its
\* last, and its local variables; pc = "idle" when there is none
IdleTask ==
    [op |-> "-", domain |-> NoDomain, pc |-> "idle", success |-> FALSE,
     error_msg |-> NoError, expires_at |-> NoTime, slept |-> FALSE, drew |-> FALSE,
     loaded_expires_at |-> NoTime, entry |-> NoRow]

\* background tasks that leave the event loop to others while they wait
LoopFree_always == TRUE

LoopFree == running.pc = "idle"

\* the attributes of the row in the identity map of the handler's session
\* when its background task runs.  A task that writes an intermediate state
\* commits and so expires them, whatever they were: they are kept for a
\* revocation alone
session_entry(op, d) ==
    IF session_open /\ op = "revoke" THEN db[CHOOSE i \in DOMAIN db : db[i].domain = d]
    ELSE NoRow

\* background_tasks.add_task(perform_..., domain, background_tasks, session)
add_task(op, d) ==
    pending (+) SetToBag({[op |-> op, domain |-> d, entry |-> session_entry(op, d)]})

---------------------------------------------------------------------------
(* Construction *)

\* the service started with a simulator of the given success_rate
Construct(rate) ==
    /\ db = << >>
    /\ certs = << >>
    /\ pending = EmptyBag
    /\ running = IdleTask
    /\ scheduled = 0
    /\ now = 0
    /\ success_rate = rate
    /\ session_open \in BOOLEAN
    /\ last = Obs("init", NoDomain, NoEvent, 0, NoOut)
    /\ chain = [d \in Domains |-> [base |-> NoTime, n |-> 0]]

Init == Construct(SUCCESS_RATE)

\* the service with CertbotMock(success_rate=1.0) and with
\* CertbotMock(success_rate=0.0)
InitAlways == Construct(100)

InitNever == Construct(0)

---------------------------------------------------------------------------
(* Handlers run on worker threads *)

\* a create that adds a row whether the domain has one or not
add_domain_unchecked(d) ==
    /\ db' = Append(db, CertDomain(d))
    /\ last' = Obs("add_domain", d, NoEvent, 200, NoOut)
    /\ UNCHANGED <<certs, chain, pending, running, scheduled, now, success_rate, session_open>>

add_domain(d) ==
    /\ IF HasRow(d)
       THEN /\ last' = Obs("add_domain", d, NoEvent, 400, NoOut)
            /\ UNCHANGED db
       ELSE /\ db' = Append(db, CertDomain(d))
            /\ last' = Obs("add_domain", d, NoEvent, 200, NoOut)
    /\ UNCHANGED <<certs, chain, pending, running, scheduled, now, success_rate, session_open>>

\* a generic manual_revoke that revokes the certificate at the simulator too
transition_domain_calls_certbot(d, e) ==
    /\ IF ~HasRow(d)
       THEN /\ last' = Obs("transition", d, e, 404, NoOut)
            /\ UNCHANGED <<db, certs>>
       ELSE LET current_state == Entry(d).state
                r == getattr_call(current_state, e)
            IN  IF r.raised
                THEN /\ last' = Obs("transition", d, e, 400, NoOut)
                     /\ UNCHANGED <<db, certs>>
                ELSE /\ db' = [db EXCEPT ![RowId(d)].state = r.state]
                     /\ certs' = IF e = "manual_revoke" /\ d \in DOMAIN certs
                                 THEN [certs EXCEPT ![d].status = "revoked"]
                                 ELSE certs
                     /\ last' = Obs("transition", d, e, 200, [new_state |-> r.state])
    /\ UNCHANGED <<chain, pending, running, scheduled, now, success_rate, session_open>>

transition_domain(d, e) ==
    /\ IF ~HasRow(d)
       THEN /\ last' = Obs("transition", d, e, 404, NoOut)
            /\ UNCHANGED db
       ELSE LET current_state == Entry(d).state
                r == getattr_call(current_state, e)
            IN  IF r.raised
                THEN /\ last' = Obs("transition", d, e, 400, NoOut)
                     /\ UNCHANGED db
                ELSE /\ db' = [db EXCEPT ![RowId(d)].state = r.state]
                     /\ last' = Obs("transition", d, e, 200, [new_state |-> r.state])
    /\ UNCHANGED <<certs, chain, pending, running, scheduled, now, success_rate, session_open>>

\* time passes
Tick ==
    /\ \E t \in Clock :
         /\ t > now
         /\ \A u \in Clock : u > now => t <= u
         /\ now' = t
    /\ last' = Obs("tick", NoDomain, NoEvent, 0, NoOut)
    /\ UNCHANGED <<db, certs, chain, pending, running, scheduled, success_rate, session_open>>

---------------------------------------------------------------------------
(* CertbotMock *)

\* random.random() <= self.success_rate
Succeeds_or_equal(r) == r <= success_rate

\* random.random() < self.success_rate
Succeeds(r) == r < success_rate

HasCert(d) == d \in DOMAIN certs

\* the dict stored by issue_certificate: the keys renewed_at and revoked_at
\* are absent.  t1 and t2 are the two reads of the clock, in this order
IssuedCert(t1, t2) ==
    [status |-> "issued", expires_at |-> t1 + DAYS_VALID, issued_at |-> t2,
     renewed_at |-> NoTime, revoked_at |-> NoTime]

\* CertbotMock.issue_certificate after time.sleep: (certs', success, error_msg, expires_at)
certbot_issue_certificate(d, r, t1, t2) ==
    IF Succeeds(r)
    THEN [certs |-> (d :> IssuedCert(t1, t2)) @@ certs,
          success |-> TRUE, error_msg |-> NoError, expires_at |-> t1 + DAYS_VALID]
    ELSE [certs |-> certs,
          success |-> FALSE, error_msg |-> "Failed to complete challenge",
          expires_at |-> NoTime]

\* a renewal that counts the 90 days from the time of the call
certbot_renew_certificate_from_now(d, r, t) ==
    IF Succeeds(r)
    THEN LET new_expiry == t + DAYS_VALID
         IN  [certs |-> [certs EXCEPT ![d].expires_at = new_expiry, ![d].renewed_at = t],
              success |-> TRUE, error_msg |-> NoError, expires_at |-> new_expiry]
    ELSE [certs |-> certs,
          success |-> FALSE, error_msg |-> "Failed to renew certificate",
          expires_at |-> NoTime]

\* CertbotMock.renew_certificate after time.sleep, for a domain in self.certs
certbot_renew_certificate(d, r, t) ==
    IF Succeeds(r)
    THEN LET new_expiry == certs[d].expires_at + DAYS_VALID
         IN  [certs |-> [certs EXCEPT ![d].expires_at = new_expiry, ![d].renewed_at = t],
              success |-> TRUE, error_msg |-> NoError, expires_at |-> new_expiry]
    ELSE [certs |-> certs,
          success |-> FALSE, error_msg |-> "Failed to renew certificate",
          expires_at |-> NoTime]

\* a revocation that deletes the certificate from self.certs
certbot_revoke_certificate_deletes(d, r, t) ==
    IF Succeeds(r)
    THEN [certs |-> [x \in DOMAIN certs \ {d} |-> certs[x]],
          success |-> TRUE, error_msg |-> NoError, expires_at |-> NoTime]
    ELSE [certs |-> certs,
          success |-> FALSE, error_msg |-> "Failed to revoke certificate",
          expires_at |-> NoTime]

\* CertbotMock.revoke_certificate after time.sleep, for a domain in self.certs
certbot_revoke_certificate(d, r, t) ==
    IF Succeeds(r)
    THEN [certs |-> [certs EXCEPT ![d].status = "revoked", ![d].revoked_at = t],
          success |-> TRUE, error_msg |-> NoError, expires_at |-> NoTime]
    ELSE [certs |-> certs,
          success |-> FALSE, error_msg |-> "Failed to revoke certificate",
          expires_at |-> NoTime]

\* a check that looks at the expiry before it looks at the status
check_certificate_expiry_first(d, t1, t2) ==
    IF ~HasCert(d)
    THEN [is_valid |-> FALSE, status |-> "not_found", expires_at |-> NoTime]
    ELSE IF certs[d].expires_at < t1
    THEN [is_valid |-> FALSE, status |-> "expired", expires_at |-> certs[d].expires_at]
    ELSE IF certs[d].status = "revoked"
    THEN [is_valid |-> FALSE, status |-> "revoked", expires_at |-> NoTime]
    ELSE IF certs[d].expires_at < t2 + DAYS_EXPIRING_SOON
    THEN [is_valid |-> TRUE, status |-> "expiring_soon", expires_at |-> certs[d].expires_at]
    ELSE [is_valid |-> TRUE, status |-> "valid", expires_at |-> certs[d].expires_at]

\* CertbotMock.check_certificate: t1 and t2 are its two reads of the clock
check_certificate(d, t1, t2) ==
    IF ~HasCert(d)
    THEN [is_valid |-> FALSE, status |-> "not_found", expires_at |-> NoTime]
    ELSE IF certs[d].status = "revoked"
    THEN [is_valid |-> FALSE, status |-> "revoked", expires_at |-> NoTime]
    ELSE IF certs[d].expires_at < t1
    THEN [is_valid |-> FALSE, status |-> "expired", expires_at |-> certs[d].expires_at]
    ELSE IF certs[d].expires_at < t2 + DAYS_EXPIRING_SOON
    THEN [is_valid |-> TRUE, status |-> "expiring_soon", expires_at |-> certs[d].expires_at]
    ELSE [is_valid |-> TRUE, status |-> "valid", expires_at |-> certs[d].expires_at]

---------------------------------------------------------------------------
(* Handlers run on the event loop *)

ISSUE_FROM == {"unissued", "failed", "expired"}

RENEW_FROM == {"issued"}

\* revocation allowed from "issued" alone
REVOKE_FROM_issued_only == {"issued"}

REVOKE_FROM == {"issued", "renewed"}

\* the three /certbot/<op>/{domain} handlers differ in the allowed states
\* and in the task they schedule
certbot_request(op, allowed, d) ==
    /\ LoopFree
    /\ IF ~HasRow(d)
       THEN /\ last' = Obs(op, d, NoEvent, 404, NoOut)
            /\ UNCHANGED <<pending, scheduled>>
       ELSE IF Entry(d).state \notin allowed
       THEN /\ last' = Obs(op, d, NoEvent, 400, NoOut)
            /\ UNCHANGED <<pending, scheduled>>
       ELSE /\ scheduled < MaxTasks
            /\ pending' = add_task(op, d)
            /\ scheduled' = scheduled + 1
            /\ last' = Obs(op, d, NoEvent, 200, [previous_state |-> Entry(d).state])
    /\ UNCHANGED <<db, certs, chain, running, now, success_rate, session_open>>

issue_certificate(d) == certbot_request("issue", ISSUE_FROM, d)

renew_certificate(d) == certbot_request("renew", RENEW_FROM, d)

revoke_certificate(d) == certbot_request("revoke", REVOKE_FROM, d)

\* a check that applies the table's expired_detected, of source "issued"
checked_entry_from_issued(entry, c) ==
    [entry EXCEPT
        !.state = IF c.status = "expired" /\ entry.state = "issued"
                  THEN "expired" ELSE @,
        !.expires_at = IF c.expires_at # NoTime THEN c.expires_at ELSE @]

\* a check that stores the returned expiry, None included
checked_entry_expiry_always(entry, c) ==
    [entry EXCEPT
        !.state = IF c.status = "expired" /\ entry.state # "expired"
                  THEN "expired" ELSE @,
        !.expires_at = c.expires_at]

\* check_certificate_status: the row after the check
checked_entry(entry, c) ==
    [entry EXCEPT
        !.state = IF c.status = "expired" /\ entry.state # "expired"
                  THEN "expired" ELSE @,
        !.expires_at = IF c.expires_at # NoTime THEN c.expires_at ELSE @]

\* GET /certbot/status/{domain}: get_certificate_status and the
\* check_certificate_status it awaits
get_certificate_status(d) ==
    /\ LoopFree
    /\ IF ~HasRow(d)
       THEN /\ last' = Obs("status", d, NoEvent, 404, NoOut)
            /\ UNCHANGED <<db, now>>
       ELSE \E t2 \in LaterClock(now) :
            LET c == check_certificate(d, now, t2)
                entry == checked_entry(Entry(d), c)
            IN  /\ db' = [db EXCEPT ![RowId(d)] = entry]
                /\ now' = t2
                /\ last' = Obs("status", d, NoEvent, 200,
                               [is_valid |-> c.is_valid, status |-> c.status,
                                expires_at |-> c.expires_at, state |-> entry.state,
                                t1 |-> now, t2 |-> t2])
    /\ UNCHANGED <<certs, chain, pending, running, scheduled, success_rate, session_open>>

---------------------------------------------------------------------------
(* perform_certificate_issuance, perform_certificate_renewal and          *)
(* perform_certificate_revocation, each in three steps: up to the call of  *)
(* the simulator and into its time.sleep (or its immediate return), the    *)
(* rest of the simulator's call, and the write of its result.              *)

\* the intermediate state of an issuance misspelt
IntermediateState_misspelt(op, s) ==
    CASE op = "issue" -> "requested"
      [] op = "renew" -> "renewing"
      [] op = "revoke" -> s

\* a revocation that writes an intermediate state as the other two do
IntermediateState_revoking(op, s) ==
    CASE op = "issue" -> "requesting"
      [] op = "renew" -> "renewing"
      [] op = "revoke" -> "revoking"

\* the state written before the simulator is called; revocation writes none
IntermediateState(op, s) ==
    CASE op = "issue" -> "requesting"
      [] op = "renew" -> "renewing"
      [] op = "revoke" -> s

\* only renew_certificate looks for the domain in self.certs
ReturnsAtOnce_renew_only(op, d) == op = "renew" /\ ~HasCert(d)

\* renew_certificate and revoke_certificate return at once, before
\* time.sleep, for a domain that is not in self.certs
ReturnsAtOnce(op, d) == op \in {"renew", "revoke"} /\ ~HasCert(d)

\* entry after the select and the intermediate write, if any: the object of
\* the identity map if the session holds one, the row read otherwise; the
\* commit of an intermediate write expires it
loaded_entry(task) ==
    IF task.op # "revoke" THEN NoRow
    ELSE IF task.entry # NoRow THEN task.entry
    ELSE Entry(task.domain)

perform_start(op, d) ==
    \E task \in BagToSet(pending) :
        LET t == [IdleTask EXCEPT !.op = op, !.domain = d]
        IN  /\ LoopFree
            /\ task.op = op
            /\ task.domain = d
            /\ pending' = pending (-) SetToBag({task})
            /\ IF ~HasRow(d)
               THEN /\ UNCHANGED <<db, running>>
                    /\ last' = Obs("start", d, op, 0, NoOut)
               ELSE /\ db' = [db EXCEPT ![RowId(d)].state = IntermediateState(op, @)]
                    /\ running' =
                            IF ReturnsAtOnce(op, d)
                            THEN [t EXCEPT !.pc = "returned",
                                           !.loaded_expires_at = Entry(d).expires_at,
                                           !.entry = loaded_entry(task),
                                           !.success = FALSE,
                                           !.error_msg = "No certificate found"]
                            ELSE [t EXCEPT !.pc = "sleeping",
                                           !.loaded_expires_at = Entry(d).expires_at,
                                           !.entry = loaded_entry(task),
                                           !.slept = TRUE]
                    /\ last' = Obs("start", d, op, 0, NoOut)
            /\ UNCHANGED <<certs, chain, scheduled, now, success_rate, session_open>>

\* the simulator's call after time.sleep: the draw, the change of self.certs
\* and the values returned
perform_call ==
    LET t == running
        d == t.domain
    IN  /\ t.pc = "sleeping"
        /\ \E r \in RandomValues, t2 \in LaterClock(now) :
             LET res == CASE t.op = "issue" -> certbot_issue_certificate(d, r, now, t2)
                          [] t.op = "renew" -> certbot_renew_certificate(d, r, now)
                          [] t.op = "revoke" -> certbot_revoke_certificate(d, r, now)
             IN  /\ (t.op = "issue" /\ Succeeds(r)) \/ t2 = now
                 /\ certs' = res.certs
                 /\ now' = t2
                 /\ running' = [t EXCEPT !.pc = "returned", !.drew = TRUE,
                                          !.success = res.success,
                                          !.error_msg = res.error_msg,
                                          !.expires_at = res.expires_at]
                 /\ chain' = IF ~res.success \/ t.op = "revoke" THEN chain
                             ELSE IF t.op = "issue"
                             THEN [chain EXCEPT ![d] = [base |-> res.expires_at, n |-> 0]]
                             ELSE [chain EXCEPT ![d].n = @ + 1]
                 /\ last' = Obs("call", d, t.op, 0, NoOut)
        /\ UNCHANGED <<db, pending, scheduled, success_rate, session_open>>

\* entry after the setattr calls that follow the simulator's call
final_entry(op, entry, t) ==
    IF t.success
    THEN [entry EXCEPT
            !.state = CASE op = "issue" -> "issued"
                        [] op = "renew" -> "renewed"
                        [] op = "revoke" -> "revoked",
            !.expires_at = IF op = "revoke" THEN @ ELSE t.expires_at,
            !.last_error = NoError]
    ELSE [entry EXCEPT !.state = "failed", !.last_error = t.error_msg]

\* session.commit(): the row after the flush of an object that was loaded
\* as `loaded` and is now `entry`; a column whose value is the loaded one is
\* not written
flush(row, loaded, entry) ==
    [c \in DOMAIN row |-> IF entry[c] = loaded[c] THEN row[c] ELSE entry[c]]

perform_finish ==
    LET t == running
        d == t.domain
    IN  /\ t.pc = "returned"
        /\ db' = [db EXCEPT ![RowId(d)] =
                        IF t.entry = NoRow
                        THEN final_entry(t.op, @, t)
                        ELSE flush(@, t.entry, final_entry(t.op, t.entry, t))]
        /\ running' = IdleTask
        /\ last' = Obs("done", d, t.op, 0,
                       [success |-> t.success, error_msg |-> t.error_msg,
                        expires_at |-> t.expires_at, slept |-> t.slept,
                        drew |-> t.drew, loaded_expires_at |-> t.loaded_expires_at])
        /\ UNCHANGED <<certs, chain, pending, scheduled, now, success_rate, session_open>>

---------------------------------------------------------------------------

Ops == {"issue", "renew", "revoke"}

Next ==
    \/ \E d \in Domains : add_domain(d)
    \/ \E d \in Domains, e \in Events : transition_domain(d, e)
    \/ \E d \in Domains : issue_certificate(d)
    \/ \E d \in Domains : renew_certificate(d)
    \/ \E d \in Domains : revoke_certificate(d)
    \/ \E d \in Domains : get_certificate_status(d)
    \/ \E op \in Ops, d \in Domains : perform_start(op, d)
    \/ perform_call
    \/ perform_finish
    \/ Tick

Spec == Init /\ [][Next]_vars

SpecAlways == InitAlways /\ [][Next]_vars

SpecNever == InitNever /\ [][Next]_vars

\* Starlette awaits the background tasks of a request after its response is
\* sent: the event loop gets to every scheduled task, time.sleep returns and
\* a coroutine that holds the loop runs on to its last statement
Fairness ==
    /\ \A op \in Ops, d \in Domains : WF_vars(perform_start(op, d))
    /\ WF_vars(perform_call)
    /\ WF_vars(perform_finish)

SpecLive == Init /\ [][Next]_vars /\ Fairness

---------------------------------------------------------------------------
(* The status check on its own, day by day: the table and the simulator    *)
(* hold a certificate that was issued 90 days before its expiry (and, of   *)
(* status "revoked", revoked since), or none; the check is made within     *)
(* MaxCheckSkew days of day 90, from before the expiry to 31 days and more *)
(* before it.                                                              *)

MaxCheckSkew == 2

CheckNow == DAYS_VALID .. (DAYS_VALID + MaxCheckSkew)

CheckExpiry == DAYS_VALID .. (DAYS_VALID + MaxCheckSkew + DAYS_EXPIRING_SOON + 1)

CheckDomain == CHOOSE d \in Domains : TRUE

InitCheck ==
    /\ now \in CheckNow
    /\ \/ /\ certs = << >>
          /\ db = << CertDomain(CheckDomain) >>
          /\ scheduled = 0
          /\ chain = [d \in Domains |-> [base |-> NoTime, n |-> 0]]
       \/ \E x \in CheckExpiry, st \in {"issued", "revoked"} :
            /\ certs = (CheckDomain :>
                          [status |-> st, expires_at |-> x, issued_at |-> x - DAYS_VALID,
                           renewed_at |-> NoTime,
                           revoked_at |-> IF st = "revoked" THEN DAYS_VALID ELSE NoTime])
            /\ db = << [CertDomain(CheckDomain) EXCEPT !.state = st, !.expires_at = x] >>
            /\ scheduled = IF st = "revoked" THEN 2 ELSE 1
            /\ chain = [d \in Domains |-> [base |-> x, n |-> 0]]
    /\ pending = EmptyBag
    /\ running = IdleTask
    /\ success_rate = SUCCESS_RATE
    /\ session_open \in BOOLEAN
    /\ last = Obs("init", NoDomain, NoEvent, 0, NoOut)

NextCheck == \E d \in Domains : get_certificate_status(d)

SpecCheck == InitCheck /\ [][NextCheck]_vars

---------------------------------------------------------------------------
(* The state machine's endpoints on their own: creates, generic            *)
(* transitions and the listing of the transitions available from a state.  *)

\* the state names the listing is asked for: the declared ones and one that
\* is not declared
ListedStates == States \cup {"bogus"}

\* the loop of get_state_transitions over FSM_TRANSITIONS, in table order;
\* the description, a text looked up by the trigger, is left out
available_transitions(state) ==
    LET rows == SelectSeq(FSM_TRANSITIONS,
                          LAMBDA r : r.source = state \/ r.source = "*")
    IN  [i \in DOMAIN rows |-> [trigger |-> rows[i].trigger, dest |-> rows[i].dest]]

\* GET /fsm/transitions/{state}
get_state_transitions(state) ==
    /\ IF state \notin States
       THEN last' = Obs("transitions", NoDomain, state, 404, NoOut)
       ELSE last' = Obs("transitions", NoDomain, state, 200,
                        [state |-> state,
                         available_transitions |-> available_transitions(state)])
    /\ UNCHANGED <<db, certs, chain, pending, running, scheduled, now, success_rate,
                   session_open>>

NextFsm ==
    \/ \E d \in Domains : add_domain(d)
    \/ \E d \in Domains, e \in Events : transition_domain(d, e)
    \/ \E state \in ListedStates : get_state_transitions(state)

SpecFsm == Init /\ [][NextFsm]_vars

---------------------------------------------------------------------------
(* Properties *)

\* C1: every domain record's state is one of the ten declared states, in
\* every reachable state: after create, a generic transition, a check and
\* each write of a deferred issue, renew or revoke
C1_StateDeclared == \A i \in DOMAIN db : db[i].state \in States

\* a deferred operation has written its outcome
C1_Witness ==
    /\ last.kind = "done"
    /\ HasRow(last.domain)
    /\ Entry(last.domain).state = "failed"

\* the allowed states of C2, as the claim lists them
C2_Allowed(op) ==
    CASE op = "issue" -> {"unissued", "failed", "expired"}
      [] op = "renew" -> {"issued"}
      [] op = "revoke" -> {"issued", "renewed"}

\* C2: an Issue, Renew or Revoke request for an existing record is accepted
\* (200, one task scheduled) exactly when the record's state is in its
\* allowed set; otherwise it is rejected with 400, nothing is scheduled and
\* neither the table nor the simulator's records change
C2_PreconditionGate ==
    [][\A d \in Domains :
         (last'.kind \in Ops /\ last'.domain = d /\ HasRow(d)) =>
            IF Entry(d).state \in C2_Allowed(last'.kind)
            THEN /\ last'.code = 200
                 /\ BagCardinality(pending') = BagCardinality(pending) + 1
                 /\ \E t \in BagToSet(pending') :
                       /\ t.op = last'.kind
                       /\ t.domain = d
                       /\ CopiesIn(t, pending') = CopiesIn(t, pending) + 1
            ELSE /\ last'.code = 400
                 /\ pending' = pending
                 /\ running' = running
                 /\ db' = db
                 /\ certs' = certs]_vars

\* a revoke is rejected from "renewing" after another operation was accepted
C2_Witness ==
    /\ last.kind = "revoke"
    /\ last.code = 400
    /\ Entry(last.domain).state = "renewing"
    /\ scheduled >= 1

\* the rows of the table with trigger e whose source is s or "*"
TableRows(s, e) ==
    {i \in DOMAIN FSM_TRANSITIONS :
        /\ FSM_TRANSITIONS[i].trigger = e
        /\ FSM_TRANSITIONS[i].source \in {s, "*"}}

\* C3: the generic transition endpoint, for a record in state s and an event
\* name e, answers 200 and sets the state to the row's destination if the
\* table has a row with trigger e and source s or "*"; for every other
\* event name it answers 400 and leaves the state unchanged
C3_OnlyTableRows ==
    [][\A d \in Domains :
         (last'.kind = "transition" /\ last'.domain = d /\ HasRow(d)) =>
            LET s == Entry(d).state
                rows == TableRows(s, last'.event)
            IN  IF rows # {}
                THEN /\ last'.code = 200
                     /\ \E i \in rows : Entry(d)'.state = FSM_TRANSITIONS[i].dest
                ELSE /\ last'.code = 400
                     /\ Entry(d)'.state = s]_vars

\* C4: a declared trigger applied to a state has at most one resulting
\* state: the rows that match agree on the destination, an accepted
\* transition lands there, and a row whose source is the state itself wins
\* over a row of source "*"
C4_Deterministic ==
    [][\A d \in Domains :
         (last'.kind = "transition" /\ last'.domain = d /\ HasRow(d)
            /\ last'.event \in Triggers) =>
            LET s == Entry(d).state
                rows == TableRows(s, last'.event)
                exact == {i \in rows : FSM_TRANSITIONS[i].source = s}
            IN  /\ Cardinality({FSM_TRANSITIONS[i].dest : i \in rows}) <= 1
                /\ last'.code = 200 =>
                      \A i \in rows : Entry(d)'.state = FSM_TRANSITIONS[i].dest
                /\ \A i \in exact : /\ last'.code = 200
                                    /\ Entry(d)'.state = FSM_TRANSITIONS[i].dest]_vars

\* manual_revoke, a row of source "*", has been applied to a record
C4_Witness ==
    /\ last.kind = "transition"
    /\ last.event = "manual_revoke"
    /\ last.code = 200
    /\ Entry(last.domain).state = "revoked"

\* C5: with success_rate = 1.0 an accepted Issue ends with the record in
\* state issued, last_error NULL and expires_at equal to the simulator's
\* issued_at plus 90 days
C5_IssueSucceeds ==
    (success_rate = 100 /\ last.kind = "done" /\ last.event = "issue") =>
        LET d == last.domain
        IN  /\ Entry(d).state = "issued"
            /\ Entry(d).last_error = NoError
            /\ Entry(d).expires_at = certs[d].issued_at + DAYS_VALID

\* C6: with success_rate = 0.0 the simulator's issue creates no record and
\* an accepted Issue ends with the record in state failed, last_error set
\* and expires_at as it was when the Issue started
C6_IssueFails ==
    [][\A d \in Domains :
         /\ (success_rate = 0 /\ last'.kind = "call" /\ last'.event = "issue"
                /\ last'.domain = d) =>
               /\ certs' = certs
               /\ ~HasCert(d)'
               /\ ~running'.success
         /\ (success_rate = 0 /\ last'.kind = "done" /\ last'.event = "issue"
                /\ last'.domain = d) =>
               /\ Entry(d)'.state = "failed"
               /\ Entry(d)'.last_error # NoError
               /\ Entry(d)'.expires_at = running.loaded_expires_at
               /\ Entry(d)'.expires_at = NoTime]_vars

\* an Issue has failed under success_rate = 0.0
C6_Witness ==
    /\ success_rate = 0
    /\ last.kind = "done"
    /\ last.event = "issue"
    /\ Entry(last.domain).state = "failed"
    /\ Entry(last.domain).last_error = "Failed to complete challenge"

C8_Status(x, n) ==
    IF x < n THEN "expired" ELSE IF x < n + 30 THEN "expiring_soon" ELSE "valid"

\* C8: the check answers not_found without a record, revoked for a revoked
\* record whatever its expiry, and otherwise expired, expiring_soon or valid
\* by the expiry against the time of the check (a day between its two reads
\* of the clock); the flag is true for valid and expiring_soon alone and
\* the expiry is None for not_found and revoked alone
C8_Classification ==
    (last.kind = "status" /\ last.code = 200) =>
        LET d == last.domain
            o == last.out
        IN  /\ ~HasCert(d) => o.status = "not_found"
            /\ (HasCert(d) /\ certs[d].status = "revoked") => o.status = "revoked"
            /\ (HasCert(d) /\ certs[d].status # "revoked") =>
                  /\ \E n \in o.t1 .. o.t2 : o.status = C8_Status(certs[d].expires_at, n)
                  /\ o.expires_at = certs[d].expires_at
            /\ o.is_valid <=> o.status \in {"valid", "expiring_soon"}
            /\ o.expires_at = NoTime <=> o.status \in {"not_found", "revoked"}

\* a certificate that expires in 29 days is reported as expiring soon
C8_Witness ==
    /\ last.kind = "status"
    /\ last.code = 200
    /\ last.out.status = "expiring_soon"
    /\ last.out.expires_at = last.out.t2 + 29

\* C9: the simulator's renew and revoke for a domain without a record
\* return failure with a message at once, without time.sleep and without a
\* draw, and leave the simulator's records unchanged
C9_FailAtOnce ==
    [][\A d \in Domains :
         (last'.kind = "start" /\ last'.event \in {"renew", "revoke"}
            /\ last'.domain = d /\ HasRow(d) /\ ~HasCert(d)) =>
            /\ running'.pc = "returned"
            /\ ~running'.success
            /\ running'.error_msg # NoError
            /\ ~running'.slept
            /\ ~running'.drew
            /\ certs' = certs
            /\ ~HasCert(d)']_vars

\* a revoke for a domain without a record has returned at once
C9_Witness ==
    /\ running.pc = "returned"
    /\ running.op = "revoke"
    /\ ~HasCert(running.domain)
    /\ ~running.slept
    /\ running.error_msg = "No certificate found"

\* C10: a created domain is unissued; request_cert then gives requesting;
\* validate_ok from requesting is rejected and the state stays requesting;
\* manual_revoke is accepted from every state and gives revoked
C10_EndToEnd ==
    [][\A d \in Domains :
         /\ (last'.kind = "add_domain" /\ last'.domain = d /\ last'.code = 200) =>
               Entry(d)'.state = "unissued"
         /\ (last'.kind = "transition" /\ last'.domain = d /\ HasRow(d)) =>
               /\ (last'.event = "request_cert" /\ Entry(d).state = "unissued") =>
                     (last'.code = 200 /\ Entry(d)'.state = "requesting")
               /\ (last'.event = "validate_ok" /\ Entry(d).state = "requesting") =>
                     (last'.code = 400 /\ Entry(d)'.state = "requesting")
               /\ last'.event = "manual_revoke" =>
                     (last'.code = 200 /\ Entry(d)'.state = "revoked")]_vars

\* validate_ok has been rejected for a record in state requesting
C10_Witness ==
    /\ last.kind = "transition"
    /\ last.event = "validate_ok"
    /\ last.code = 400
    /\ Entry(last.domain).state = "requesting"

\* the states the table has no row out of, but for the rows of source "*"
Terminal == {"revoked", "invalid"}

\* C11: once a record's state is revoked or invalid, no step (a generic
\* transition, a check, a request, a write of a deferred operation) puts it
\* into a state other than revoked and invalid
C11_NothingLeaves ==
    [][\A d \in Domains :
         (HasRow(d) /\ Entry(d).state \in Terminal) => Entry(d)'.state \in Terminal]_vars

\* the states the terminal write of a deferred operation can leave
Outcome(op) ==
    CASE op = "issue" -> {"issued", "failed"}
      [] op = "renew" -> {"renewed", "failed"}
      [] op = "revoke" -> {"revoked", "failed"}

\* C12: under fair scheduling every accepted Issue, Renew or Revoke comes
\* to its terminal write, which leaves the record issued or failed, renewed
\* or failed, revoked or failed; again and again no scheduled operation is
\* waiting or under way
C12_RunsToCompletion ==
    /\ \A op \in Ops, d \in Domains :
          (last.kind = op /\ last.domain = d /\ last.code = 200)
             ~> (last.kind = "done" /\ last.event = op /\ last.domain = d)
    /\ []<>(pending = EmptyBag /\ running.pc = "idle")
    /\ [][\A d \in Domains :
            (last'.kind = "done" /\ last'.domain = d) =>
                Entry(d)'.state \in Outcome(last'.event)]_vars

\* C13: the terminal write of a deferred Renew or Revoke records the
\* simulator's outcome: on success the state becomes renewed (with
\* expires_at set to the simulator's new expiry) or revoked and last_error
\* is cleared; on failure the state becomes failed, last_error is the
\* simulator's message and expires_at is left as it was
C13_TerminalWrite ==
    [][\A d \in Domains :
         (last'.kind = "done" /\ last'.event \in {"renew", "revoke"} /\ last'.domain = d) =>
            IF running.success
            THEN /\ Entry(d)'.state = IF last'.event = "renew" THEN "renewed" ELSE "revoked"
                 /\ Entry(d)'.last_error = NoError
                 /\ last'.event = "renew" =>
                       /\ Entry(d)'.expires_at = running.expires_at
                       /\ Entry(d)'.expires_at = certs[d].expires_at
            ELSE /\ Entry(d)'.state = "failed"
                 /\ Entry(d)'.last_error = running.error_msg
                 /\ Entry(d)'.last_error # NoError
                 /\ Entry(d)'.expires_at = Entry(d).expires_at]_vars

\* a deferred operation is between its start and its terminal write
InProgress == running.pc \in {"sleeping", "returned"}

\* C14: nothing serializes the deferred operations of a domain: while one
\* is in progress, another one accepted for the same domain can start, so
\* that both are in progress at once
C14_NoSerialization ==
    \A op \in Ops, d \in Domains :
        (/\ InProgress
         /\ running.domain = d
         /\ \E task \in BagToSet(pending) : task.op = op /\ task.domain = d)
            => ENABLED perform_start(op, d)

\* C14 as amended: the event loop serializes the deferred operations: one
\* starts only when none is in progress, and while one is in progress every
\* step is its own next step, a create, a generic transition or the passing
\* of time; no request for an Issue, Renew, Revoke or Check is handled
C14_Serialized ==
    [][/\ last'.kind = "start" => ~InProgress
       /\ InProgress =>
             \/ /\ last'.kind \in {"call", "done"}
                /\ last'.domain = running.domain
                /\ last'.event = running.op
             \/ last'.kind \in {"add_domain", "transition", "tick"}]_vars

\* an Issue is in progress, a second accepted Issue of the domain waits and
\* a generic transition has fallen between the steps of the first
C14_Witness ==
    /\ running.pc = "returned"
    /\ running.op = "issue"
    /\ \E task \in BagToSet(pending) : task.op = "issue" /\ task.domain = running.domain
    /\ Entry(running.domain).state = "invalid"

\* C15: a failed call of the simulator leaves the record failed with
\* last_error set; a deferred operation starts only for a request that was
\* accepted, one start for each; and the only step that takes a record
\* from failed to requesting is the start of a deferred Issue
C15_NoRetry ==
    [][\A d \in Domains :
         /\ (last'.kind = "done" /\ last'.domain = d /\ ~running.success) =>
               /\ Entry(d)'.state = "failed"
               /\ Entry(d)'.last_error # NoError
         /\ (last'.kind = "start" /\ last'.domain = d) =>
               /\ \E task \in BagToSet(pending) : task.op = last'.event /\ task.domain = d
               /\ BagCardinality(pending') = BagCardinality(pending) - 1
         /\ (HasRow(d) /\ Entry(d).state = "failed" /\ Entry(d)'.state = "requesting") =>
               (last'.kind = "start" /\ last'.event = "issue")]_vars

\* C16: a create for a domain without a record adds one record, unissued,
\* with expires_at and last_error NULL; a create for a domain that has a
\* record is answered 400 and leaves the table as it is; no domain ever has
\* two records
C16_Create ==
    [][\A d \in Domains :
         /\ (last'.kind = "add_domain" /\ last'.domain = d) =>
               IF HasRow(d)
               THEN /\ last'.code = 400
                    /\ db' = db
               ELSE /\ last'.code = 200
                    /\ Len(db') = Len(db) + 1
                    /\ \A i \in DOMAIN db : db'[i] = db[i]
                    /\ Entry(d)'.state = "unissued"
                    /\ Entry(d)'.expires_at = NoTime
                    /\ Entry(d)'.last_error = NoError
         /\ Cardinality(RowsOf(d))' <= 1]_vars

\* a create was rejected for a record that an Issue has since moved on
C16_Witness ==
    /\ last.kind = "add_domain"
    /\ last.code = 400
    /\ Entry(last.domain).state = "issued"
    /\ Len(db) = 1

\* C17: when a deferred Issue, Renew or Revoke starts (its first write, or
\* for a Revoke its call of the simulator), the record's state is in the
\* allowed set of the operation, whatever was processed since the request
\* was accepted
C17_PreconditionAtStart ==
    [][\A d \in Domains :
         (last'.kind = "start" /\ last'.domain = d /\ HasRow(d)) =>
            Entry(d).state \in C2_Allowed(last'.event)]_vars

\* C18: a check is made whatever the record's state; if the simulator
\* answers expired the state after the check is expired, and for every
\* other answer (not_found, revoked, expiring_soon, valid) the state is
\* left as it is, also when it disagrees with the simulator
C18_CheckState ==
    [][\A d \in Domains :
         (last'.kind = "status" /\ last'.domain = d /\ HasRow(d)) =>
            /\ last'.code = 200
            /\ last'.out.status \in {"not_found", "revoked", "expired", "expiring_soon", "valid"}
            /\ Entry(d)'.state =
                  IF last'.out.status = "expired" THEN "expired" ELSE Entry(d).state
            /\ last'.out.state = Entry(d)'.state]_vars

\* a check has left a record issued that the simulator holds as revoked
C18_Witness ==
    /\ last.kind = "status"
    /\ last.code = 200
    /\ last.out.status = "revoked"
    /\ Entry(last.domain).state = "issued"

\* C19: a check sets the record's expires_at to the simulator's expiry if
\* it returned one (expired, expiring_soon, valid) and leaves it as it is
\* if not (not_found, revoked); it changes neither last_error nor any
\* record of the simulator
C19_CheckFrame ==
    [][\A d \in Domains :
         (last'.kind = "status" /\ last'.domain = d /\ HasRow(d)) =>
            /\ last'.out.expires_at # NoTime
                  <=> last'.out.status \in {"expired", "expiring_soon", "valid"}
            /\ Entry(d)'.expires_at =
                  IF last'.out.status \in {"expired", "expiring_soon", "valid"}
                  THEN certs[d].expires_at ELSE Entry(d).expires_at
            /\ Entry(d)'.last_error = Entry(d).last_error
            /\ certs' = certs]_vars

\* a check of a revoked certificate has left the record's expiry in place
C19_Witness ==
    /\ last.kind = "status"
    /\ last.code = 200
    /\ last.out.status = "revoked"
    /\ last.out.expires_at = NoTime
    /\ Entry(last.domain).expires_at = DAYS_VALID

\* C20: a deferred Issue writes the state requesting and a deferred Renew
\* the state renewing before the simulator is called; a deferred Revoke
\* writes nothing before the call, so that from its acceptance to its
\* terminal write no step of the Revoke changes the record
C20_IntermediateWrite ==
    [][\A d \in Domains :
         /\ (last'.kind = "start" /\ last'.domain = d /\ HasRow(d)) =>
               /\ last'.event = "issue" => Entry(d)'.state = "requesting"
               /\ last'.event = "renew" => Entry(d)'.state = "renewing"
               /\ last'.event = "revoke" => db' = db
               /\ running'.pc \in {"sleeping", "returned"}
               /\ ~running'.drew
         /\ (last'.kind = "revoke" /\ last'.domain = d) => db' = db
         /\ (last'.kind = "call" /\ last'.domain = d) => db' = db]_vars

\* a Revoke is in the simulator's call and the record is still issued
C20_Witness ==
    /\ running.op = "revoke"
    /\ running.pc = "sleeping"
    /\ Entry(running.domain).state = "issued"

\* C21: a generic transition, accepted or rejected, never calls the
\* simulator: it leaves every record of the simulator as it is and changes
\* neither expires_at nor last_error of the domain record (a rejected one
\* changes nothing of the table); a generic manual_revoke sets the state to
\* revoked while the simulator's status of the domain stays as it was
C21_GenericFrame ==
    [][\A d \in Domains :
         (last'.kind = "transition" /\ last'.domain = d) =>
            /\ certs' = certs
            /\ last'.code \in {200, 400, 404}
            /\ last'.code # 200 => db' = db
            /\ HasRow(d) =>
                  /\ Entry(d)'.expires_at = Entry(d).expires_at
                  /\ Entry(d)'.last_error = Entry(d).last_error
                  /\ last'.event = "manual_revoke" =>
                        /\ Entry(d)'.state = "revoked"
                        /\ HasCert(d) => certs'[d].status = certs[d].status]_vars

\* a generic manual_revoke has revoked a record whose certificate the
\* simulator holds as issued
C21_Witness ==
    /\ last.kind = "transition"
    /\ last.event = "manual_revoke"
    /\ last.code = 200
    /\ Entry(last.domain).state = "revoked"
    /\ Entry(last.domain).expires_at # NoTime
    /\ HasCert(last.domain)
    /\ certs[last.domain].status = "issued"

Listed(s) ==
    {<<available_transitions(s)[i].trigger, available_transitions(s)[i].dest>> :
        i \in DOMAIN available_transitions(s)}

\* C23: the listing agrees with the generic transition endpoint: a trigger
\* is listed for a state exactly if the endpoint accepts it from that state,
\* with the state the endpoint produces as its dest; the listing of a
\* declared state is answered 200 and holds manual_revoke and invalidate
C23_ListingAgrees ==
    [][/\ \A d \in Domains :
            (last'.kind = "transition" /\ last'.domain = d /\ HasRow(d)) =>
               LET s == Entry(d).state
               IN  /\ last'.code = 200 <=> \E p \in Listed(s) : p[1] = last'.event
                   /\ last'.code = 200 =>
                         \A p \in Listed(s) :
                            p[1] = last'.event => p[2] = Entry(d)'.state
       /\ (last'.kind = "transitions" /\ last'.event \in States) =>
             /\ last'.code = 200
             /\ \E i \in DOMAIN last'.out.available_transitions :
                   last'.out.available_transitions[i] =
                       [trigger |-> "manual_revoke", dest |-> "revoked"]
             /\ \E i \in DOMAIN last'.out.available_transitions :
                   last'.out.available_transitions[i] =
                       [trigger |-> "invalidate", dest |-> "invalid"]]_vars

\* C24: a record in state failed has a last_error; the state failed is
\* written together with an error message, and last_error is cleared only
\* by a write that leaves the record issued, renewed or revoked
C24_FailedHasError ==
    [][\A d \in Domains :
         HasRow(d)' =>
            /\ Entry(d)'.state = "failed" => Entry(d)'.last_error # NoError
            /\ (HasRow(d) /\ Entry(d).last_error # NoError
                   /\ Entry(d)'.last_error = NoError) =>
                  Entry(d)'.state \in {"issued", "renewed", "revoked"}]_vars

\* C25: no record is ever in state validating, whatever generic
\* transitions, deferred operations and checks were made since its
\* creation, and so validate_ok is never accepted
C25_ValidatingUnreachable ==
    /\ \A i \in DOMAIN db : db[i].state # "validating"
    /\ ~(last.kind = "transition" /\ last.event = "validate_ok" /\ last.code = 200)

\* the states of a record that holds, or held, a certificate
Certified == {"issued", "renewing", "renewed", "expired"}

\* C26: a record in state issued, renewing, renewed or expired has a
\* record at the simulator, and so no deferred Renew gets the simulator's
\* answer for a domain it has no record of
C26_CertifiedHasCert ==
    /\ \A d \in Domains :
          (HasRow(d) /\ Entry(d).state \in Certified) => HasCert(d)
    /\ ~(running.op = "renew" /\ running.pc = "returned" /\ ~running.slept
            /\ running.error_msg = "No certificate found")

====
